---- MODULE Spec2Model ----
(***************************************************************************)
(* A model of the rating-grid aggregation client (src/app/tmdb_api.py):    *)
(* the TMDbAPI operations get_tv_details, get_all_episodes_ratings and     *)
(* get_trending_tv_series, and the OMDbAPI operations get_series_details   *)
(* and get_ratings.  Every outbound request is one step; the provider's    *)
(* answer to it (a transport failure or a payload) is chosen by the        *)
(* environment.                                                            *)
(*                                                                         *)
(* Encoding of Python values:                                              *)
(*   - a dict is a record; a missing key is a missing field (see Get);     *)
(*   - None is the string None in a string field, NoneNum in a numeric     *)
(*     field and NoneSeq in a field holding a character sequence;          *)
(*   - a rating (a float with at most three decimals) is an integer        *)
(*     number of thousandths: 8.743 is 8743;                               *)
(*   - a date string is the sequence of its characters;                    *)
(*   - an f-string / concatenation is the sequence of its pieces.          *)
(***************************************************************************)
EXTENDS Integers, Sequences, FiniteSets, TLC

(***************************************************************************)
(* Bounds of the model.                                                    *)
(***************************************************************************)
MaxSeasons == 2
MaxEpisodes == 2
MaxItems == 2
MaxFetches == 2

(***************************************************************************)
(* Python values.                                                          *)
(***************************************************************************)
None == "None"
NoneNum == -1
NoneSeq == <<"None">>
EmptyDict == [k \in {} |-> None]

\* dict.get(key, default)
Get(d, k, default) == IF k \in DOMAIN d THEN d[k] ELSE default

\* bool(x) for a string field: None and "" are falsy
Truthy(x) == x # None /\ x # ""

\* bool(x) for a character-sequence field: None and "" are falsy
TruthySeq(s) == s # NoneSeq /\ s # <<>>

\* as Take, the whole list whatever n
TakeAll(xs, n) == xs

\* xs[:n] for n >= 0
Take(xs, n) == SubSeq(xs, 1, IF n < Len(xs) THEN n ELSE Len(xs))

\* all sequences over S of length at most n
SeqUpTo(S, n) == UNION {[1..k -> S] : k \in 0..n}

(***************************************************************************)
(* datetime.strptime(air_date, "%Y-%m-%d").date()                          *)
(***************************************************************************)
Digits == {"0", "1", "2", "3", "4", "5", "6", "7", "8", "9"}
NonZeroDigits == Digits \ {"0"}

DigitVal(c) ==
    CASE c = "0" -> 0 [] c = "1" -> 1 [] c = "2" -> 2 [] c = "3" -> 3
      [] c = "4" -> 4 [] c = "5" -> 5 [] c = "6" -> 6 [] c = "7" -> 7
      [] c = "8" -> 8 [] c = "9" -> 9 [] OTHER -> 0

\* the characters of s from position a to position b, read as a number
RECURSIVE NumVal(_, _, _)
NumVal(s, a, b) ==
    IF b < a THEN 0
    ELSE IF s[b] = " " THEN NumVal(s, a, b - 1)
    ELSE 10 * NumVal(s, a, b - 1) + DigitVal(s[b])

\* %m is the pattern 1[0-2]|0[1-9]|[1-9], which must be followed by "-":
\* the number of characters it takes at position 6, 0 when none matches
MonthLen(s) ==
    IF Len(s) >= 8 /\ s[6] = "1" /\ s[7] \in {"0", "1", "2"} /\ s[8] = "-" THEN 2
    ELSE IF Len(s) >= 8 /\ s[6] = "0" /\ s[7] \in NonZeroDigits /\ s[8] = "-" THEN 2
    ELSE IF Len(s) >= 7 /\ s[6] \in NonZeroDigits /\ s[7] = "-" THEN 1
    ELSE 0

\* %d is the pattern 3[01]|[12]\d|0[1-9]|[1-9]| [1-9]: the number of
\* characters the first matching alternative takes at position p
DayLen(s, p) ==
    IF Len(s) >= p + 1 /\ s[p] = "3" /\ s[p + 1] \in {"0", "1"} THEN 2
    ELSE IF Len(s) >= p + 1 /\ s[p] \in {"1", "2"} /\ s[p + 1] \in Digits THEN 2
    ELSE IF Len(s) >= p + 1 /\ s[p] = "0" /\ s[p + 1] \in NonZeroDigits THEN 2
    ELSE IF Len(s) >= p /\ s[p] \in NonZeroDigits THEN 1
    ELSE IF Len(s) >= p + 1 /\ s[p] = " " /\ s[p + 1] \in NonZeroDigits THEN 2
    ELSE 0

IsLeap(y) == (y % 4 = 0) /\ ((y % 100 # 0) \/ (y % 400 = 0))

DaysInMonth(y, m) ==
    IF m = 2 THEN (IF IsLeap(y) THEN 29 ELSE 28)
    ELSE IF m \in {4, 6, 9, 11} THEN 30 ELSE 31

\* the outcome of strptime: ok = FALSE stands for the ValueError
StrpDate(s) ==
    LET bad == [ok |-> FALSE, date |-> <<0, 0, 0>>] IN
    IF ~(Len(s) >= 5 /\ (\A i \in 1..4 : s[i] \in Digits) /\ s[5] = "-") THEN bad
    ELSE LET ml == MonthLen(s) IN
         IF ml = 0 THEN bad
         ELSE LET p  == 6 + ml + 1
                  dl == DayLen(s, p) IN
              \* "unconverted data remains" when the match stops short
              IF dl = 0 \/ p + dl - 1 # Len(s) THEN bad
              ELSE LET y == NumVal(s, 1, 4)
                       m == NumVal(s, 6, 5 + ml)
                       d == NumVal(s, p, p + dl - 1) IN
                   \* datetime.date(y, m, d) rejects year 0 and a day the
                   \* month does not have
                   IF y < 1 \/ d > DaysInMonth(y, m) THEN bad
                   ELSE [ok |-> TRUE, date |-> <<y, m, d>>]

\* date.__gt__
DateGT(a, b) ==
    \/ a[1] > b[1]
    \/ a[1] = b[1] /\ a[2] > b[2]
    \/ a[1] = b[1] /\ a[2] = b[2] /\ a[3] > b[3]

(***************************************************************************)
(* Transport.  A response is a transport failure (requests raises: a       *)
(* network error, or a non-2xx status at raise_for_status) or a decoded    *)
(* JSON payload.                                                           *)
(***************************************************************************)
Failure == [status |-> "error"]
Ok(json) == [status |-> "ok", json |-> json]
Failed(resp) == resp.status = "error"

TmdbRequest(endpoint, id) == [api |-> "tmdb", endpoint |-> endpoint, id |-> id]
OmdbRequest(key, value) == [api |-> "omdb", endpoint |-> "/", key |-> key, value |-> value]

(***************************************************************************)
(* OMDbAPI                                                                 *)
(***************************************************************************)
\* float(x) of the strings the model's payloads carry, in thousandths;
\* any other string makes float() raise ValueError
FloatStrings == {"8.7", "9.5", "0.0"}
FloatOf(x) == CASE x = "8.7" -> 8700 [] x = "9.5" -> 9500 [] OTHER -> 0

\* int(x) likewise
IntStrings == {"83", "99", "0"}
IntOf(x) == CASE x = "83" -> 83 [] x = "99" -> 99 [] OTHER -> 0

\* str.lower() on the titles of the model
Lower(x) ==
    CASE x = "Severance" -> "severance"
      [] x = "SEVERANCE" -> "severance"
      [] x = "Severence" -> "severence"
      [] OTHER -> x

\* the outcome of a call: raised is "" when it returned value, else the
\* exception; requests are the requests it sent
Returned(value, requests) == [raised |-> "", value |-> value, requests |-> requests]
Raised(exc, requests) == [raised |-> exc, value |-> EmptyDict, requests |-> requests]

\* api_key or os.environ.get(name)
KeyFrom(key, env, name) == IF Truthy(key) THEN key ELSE Get(env, name, None)

\* OMDbAPI.__init__(api_key): the client, or ValueError without a key
OMDbInit(key, env) ==
    IF ~Truthy(KeyFrom(key, env, "OMDB_API_KEY")) THEN Raised("ValueError", <<>>)
    ELSE Returned([api_key |-> KeyFrom(key, env, "OMDB_API_KEY")], <<>>)

\* OMDbAPI.search_series(title)
SearchSeries(title, resp) ==
    LET req == OmdbRequest("s", title) IN
    IF Failed(resp) THEN Raised("HTTPError", <<req>>)
    ELSE IF Get(resp.json, "Response", None) = "False" THEN Returned(<<>>, <<req>>)
    ELSE Returned(Get(resp.json, "Search", <<>>), <<req>>)

\* as GetSeriesDetails, without the check of the arguments
GetSeriesDetailsUnchecked(title, imdb_id, resp) ==
    LET req == IF Truthy(title) THEN OmdbRequest("t", title)
               ELSE OmdbRequest("i", imdb_id) IN
    IF Failed(resp) THEN Raised("HTTPError", <<req>>)
    ELSE IF Get(resp.json, "Response", None) = "False"
         THEN Returned(EmptyDict, <<req>>)
         ELSE Returned(resp.json, <<req>>)

\* OMDbAPI.get_series_details(title, imdb_id)
GetSeriesDetails(title, imdb_id, resp) ==
    IF ~Truthy(title) /\ ~Truthy(imdb_id) THEN Raised("ValueError", <<>>)
    ELSE LET req == IF Truthy(title) THEN OmdbRequest("t", title)
                    ELSE OmdbRequest("i", imdb_id) IN
         IF Failed(resp) THEN Raised("HTTPError", <<req>>)
         ELSE IF Get(resp.json, "Response", None) = "False"
              THEN Returned(EmptyDict, <<req>>)
              ELSE Returned(resp.json, <<req>>)

\* the Value of the first entry of Ratings whose Source is Rotten Tomatoes
RECURSIVE RottenTomatoes(_)
RottenTomatoes(rs) ==
    IF rs = <<>> THEN None
    ELSE IF Get(Head(rs), "Source", None) = "Rotten Tomatoes"
         THEN Get(Head(rs), "Value", None)
         ELSE RottenTomatoes(Tail(rs))

\* the ratings dict get_ratings builds from the detail record: float() and
\* int() of the two numeric fields unless they are the literal N/A, a
\* missing field read as 0
RatingsBlock(data) ==
    [title           |-> Get(data, "Title", None),
     year            |-> Get(data, "Year", None),
     imdb_rating     |-> IF "imdbRating" \notin DOMAIN data THEN 0
                         ELSE IF data.imdbRating # "N/A"
                              THEN FloatOf(data.imdbRating) ELSE NoneNum,
     imdb_votes      |-> Get(data, "imdbVotes", None),
     metascore       |-> IF "Metascore" \notin DOMAIN data THEN 0
                         ELSE IF data.Metascore # "N/A"
                              THEN IntOf(data.Metascore) ELSE NoneNum,
     imdb_id         |-> Get(data, "imdbID", None),
     rotten_tomatoes |-> RottenTomatoes(Get(data, "Ratings", <<>>))]

\* float() or int() raises ValueError on the field
Unconvertible(data) ==
    \/ /\ "imdbRating" \in DOMAIN data
       /\ data.imdbRating # "N/A"
       /\ data.imdbRating \notin FloatStrings
    \/ /\ "Metascore" \in DOMAIN data
       /\ data.Metascore # "N/A"
       /\ data.Metascore \notin IntStrings

\* as Correction, the titles compared as they are written
CorrectionCaseSensitive(title, corrected) ==
    IF Truthy(title) /\ Truthy(corrected) /\ title # corrected
    THEN [original_query |-> title, corrected_title |-> corrected]
    ELSE EmptyDict

\* the two fields get_ratings adds when it corrected the title
Correction(title, corrected) ==
    IF Truthy(title) /\ Truthy(corrected) /\ Lower(title) # Lower(corrected)
    THEN [original_query |-> title, corrected_title |-> corrected]
    ELSE EmptyDict

\* get_ratings from the detail lookup on, sent being the requests before it
RatingsFrom(title, corrected, sent, details) ==
    IF details.raised # "" THEN Raised(details.raised, sent \o details.requests)
    ELSE IF DOMAIN details.value = {} THEN Returned(EmptyDict, sent \o details.requests)
    ELSE IF Unconvertible(details.value) THEN Raised("ValueError", sent \o details.requests)
    ELSE Returned(Correction(title, corrected) @@ RatingsBlock(details.value),
                  sent \o details.requests)

\* as RatingsAfterSearch, the detail lookup made with the arguments of the
\* call whatever the search found
RatingsAfterSearchAsCalled(title, imdb_id, search, detailResp) ==
    IF search.raised # "" THEN Raised(search.raised, search.requests)
    ELSE RatingsFrom(title,
                     IF search.value # <<>> THEN Head(search.value).Title ELSE None,
                     search.requests,
                     GetSeriesDetails(IF ~Truthy(imdb_id) THEN title ELSE None,
                                      imdb_id, detailResp))

\* get_ratings after the search: by the first match's id, or as called
RatingsAfterSearch(title, imdb_id, search, detailResp) ==
    IF search.raised # "" THEN Raised(search.raised, search.requests)
    ELSE IF search.value # <<>>
    THEN RatingsFrom(title, Head(search.value).Title, search.requests,
                     GetSeriesDetails(None, Head(search.value).imdbID, detailResp))
    ELSE RatingsFrom(title, None, search.requests,
                     GetSeriesDetails(IF ~Truthy(imdb_id) THEN title ELSE None,
                                      imdb_id, detailResp))

\* OMDbAPI.get_ratings(title, imdb_id)
GetRatings(title, imdb_id, searchResp, detailResp) ==
    RatingsAfterSearch(title, imdb_id,
                       IF Truthy(title) /\ ~Truthy(imdb_id)
                       THEN SearchSeries(title, searchResp)
                       ELSE Returned(<<>>, <<>>),
                       detailResp)

\* what the secondary provider may answer to a detail lookup
OmdbFull ==
    [Response |-> "True", Title |-> "Severance", Year |-> "2022-",
     imdbRating |-> "8.7", imdbVotes |-> "250,000", Metascore |-> "83",
     imdbID |-> "tt11280740",
     Ratings |-> <<[Source |-> "Internet Movie Database", Value |-> "8.7/10"],
                   [Source |-> "Rotten Tomatoes", Value |-> "97%"]>>]
OmdbNA ==
    [Response |-> "True", Title |-> "Severance", Year |-> "2022-",
     imdbRating |-> "N/A", imdbVotes |-> "N/A", Metascore |-> "N/A",
     imdbID |-> "tt11280740", Ratings |-> <<>>]
OmdbBare == [Response |-> "True", Title |-> "Severance"]
OmdbGarbled == [Response |-> "True", Title |-> "Severance", imdbRating |-> "n/a"]
OmdbMiss == [Response |-> "False", Error |-> "Series not found!"]

OmdbDetailResponses ==
    {Failure} \cup {Ok(j) : j \in {OmdbFull, OmdbNA, OmdbBare, OmdbGarbled, OmdbMiss}}

\* those the operations of TMDbAPI are run against
OmdbEnrichResponses == OmdbDetailResponses \ {Ok(OmdbBare)}

\* what the secondary provider may answer to a title search
OmdbSearchResponses ==
    {Failure, Ok(OmdbMiss), Ok([Response |-> "True"]),
     Ok([Response |-> "True",
         Search |-> <<[Title |-> "Severance", imdbID |-> "tt11280740"],
                      [Title |-> "Severance Pay", imdbID |-> "tt0000002"]>>])}

(***************************************************************************)
(* What the primary provider may answer.                                   *)
(***************************************************************************)
Titles == {"Severance"}

\* /search/tv
SearchResponses ==
    {Failure, Ok([page |-> 1]), Ok([results |-> <<>>]),
     Ok([results |-> <<[id |-> 1], [id |-> 2]>>])}

\* the entries of the seasons list of /tv/{id}
SeasonDicts ==
    {[name |-> "Specials"], [season_number |-> -1], [season_number |-> 0],
     [season_number |-> 1], [season_number |-> 2]}

\* the seasons lists: a series lists a season once
SeasonLists ==
    {sl \in SeqUpTo(SeasonDicts, MaxSeasons) :
        \A i, j \in DOMAIN sl : i # j => sl[i] # sl[j]}

DetailsFull ==
    [name |-> "Severance", original_name |-> "Severance",
     first_air_date |-> "2022-02-17", last_air_date |-> "2025-03-20",
     number_of_seasons |-> 2, number_of_episodes |-> 19,
     vote_average |-> 8743, vote_count |-> 1500, overview |-> "Mark leads a team.",
     genres |-> <<[id |-> 18, name |-> "Drama"], [id |-> 9648, name |-> "Mystery"]>>,
     networks |-> <<[id |-> 2552, name |-> "Apple TV+"]>>,
     poster_path |-> "/abc.jpg", backdrop_path |-> "/bd.jpg"]
DetailsSparse == [name |-> "the bear", vote_average |-> 7000, poster_path |-> None]

\* /tv/{id}
DetailsResponses ==
    {Failure, Ok(DetailsSparse)}
      \cup {Ok([seasons |-> sl] @@ DetailsFull) : sl \in SeasonLists}

\* /tv/{id}/external_ids
ExternalIdsResponses ==
    {Failure, Ok([id |-> 1]), Ok([imdb_id |-> None]), Ok([imdb_id |-> ""]),
     Ok([imdb_id |-> "tt11280740"])}

\* the evaluation date, datetime.now().date()
EvalDates == {<<2024, 6, 15>>}

\* the episodes of /tv/{id}/season/{n}: aired, airing on the evaluation
\* date, announced for later, undated (null, empty) and with an air date
\* that is no date of the calendar
EpisodeDicts ==
    {[episode_number |-> 1, name |-> "Pilot", vote_average |-> 8743, vote_count |-> 120,
      air_date |-> <<"2","0","2","4","-","0","6","-","1","4">>],
     [episode_number |-> 2, name |-> "Today", vote_average |-> 7250, vote_count |-> 10,
      air_date |-> <<"2","0","2","4","-","6","-","1","5">>],
     [episode_number |-> 3, name |-> "Soon", vote_average |-> 9100, vote_count |-> 3,
      air_date |-> <<"2","0","2","4","-","0","6","-","1","6">>],
     [episode_number |-> 4, name |-> "Undated", vote_average |-> 5000, vote_count |-> 1,
      air_date |-> NoneSeq],
     [episode_number |-> 6, name |-> "Empty", vote_average |-> 6000, vote_count |-> 2,
      air_date |-> <<>>],
     [episode_number |-> 8, name |-> "Feb 30", vote_average |-> 3000, vote_count |-> 5,
      air_date |-> <<"2","0","2","4","-","0","2","-","3","0">>]}

\* /tv/{id}/season/{n}
SeasonResponses ==
    {Failure, Ok([id |-> 1])}
      \cup {Ok([episodes |-> es]) : es \in SeqUpTo(EpisodeDicts, MaxEpisodes)}

\* /trending/tv/{window}: the items of the page
Shows ==
    {[id |-> 1, name |-> "the bear", overview |-> "A chef returns.",
      first_air_date |-> "2022-06-23", vote_average |-> 8743,
      poster_path |-> "/abc.jpg", backdrop_path |-> "/bd.jpg", popularity |-> 120],
     [id |-> 2, name |-> "SEVERANCE", vote_average |-> 8250,
      poster_path |-> None, backdrop_path |-> ""],
     [id |-> 3]}

TrendingResponses ==
    {Failure, Ok(EmptyDict), Ok([page |-> 1]), Ok([results |-> <<>>])}
      \cup {Ok([page |-> 2, total_pages |-> 5, total_results |-> 100, results |-> p]) :
              p \in SeqUpTo(Shows, MaxItems) \ {<<>>}}

(***************************************************************************)
(* TMDbAPI: the records the operations build.                              *)
(***************************************************************************)
\* as NotFound, an empty record in place of the error record
NotFoundEmpty(t) == EmptyDict

\* f"TV show '{title}' not found"
NotFound(t) == [error |-> <<"TV show '", t, "' not found">>]

\* [x.get("name") for x in xs]
Names(xs) == [i \in DOMAIN xs |-> Get(xs[i], "name", None)]

\* the four keys get_tv_details, get_all_episodes_ratings and
\* get_trending_tv_series copy from a non-empty block of get_ratings
SecondaryKeys == {"imdb_rating", "imdb_votes", "rotten_tomatoes", "metascore"}

WithRatings(record, omdb_ratings) ==
    IF DOMAIN omdb_ratings = {} THEN record
    ELSE [imdb_rating     |-> Get(omdb_ratings, "imdb_rating", NoneNum),
          imdb_votes      |-> Get(omdb_ratings, "imdb_votes", None),
          rotten_tomatoes |-> Get(omdb_ratings, "rotten_tomatoes", None),
          metascore       |-> Get(omdb_ratings, "metascore", NoneNum)] @@ record

\* the record of get_tv_details before the secondary ratings
TvResult(details, id, imdb) ==
    [title              |-> Get(details, "name", None),
     original_title     |-> Get(details, "original_name", None),
     first_air_date     |-> Get(details, "first_air_date", None),
     last_air_date      |-> Get(details, "last_air_date", None),
     number_of_seasons  |-> Get(details, "number_of_seasons", NoneNum),
     number_of_episodes |-> Get(details, "number_of_episodes", NoneNum),
     vote_average       |-> Get(details, "vote_average", NoneNum),
     vote_count         |-> Get(details, "vote_count", NoneNum),
     overview           |-> Get(details, "overview", None),
     genres             |-> Names(Get(details, "genres", <<>>)),
     networks           |-> Names(Get(details, "networks", <<>>)),
     poster_path        |-> Get(details, "poster_path", None),
     backdrop_path      |-> Get(details, "backdrop_path", None),
     tmdb_id            |-> id,
     imdb_id            |-> imdb]

\* the record of get_all_episodes_ratings before the secondary ratings
GridResult(details, id, imdb) ==
    [title          |-> Get(details, "name", None),
     first_air_date |-> Get(details, "first_air_date", None),
     vote_average   |-> Get(details, "vote_average", NoneNum),
     seasons        |-> EmptyDict,
     tmdb_id        |-> id,
     imdb_id        |-> imdb]

\* as RegularSeasons, the comparison admitting season 0
RegularSeasonsWithSpecials(seasons) ==
    SelectSeq(seasons, LAMBDA s : Get(s, "season_number", 0) >= 0)

\* [s for s in seasons if s.get("season_number", 0) > 0]
RegularSeasons(seasons) ==
    SelectSeq(seasons, LAMBDA s : Get(s, "season_number", 0) > 0)

\* as IsUnreleased, an episode airing on the evaluation date counted as
\* unreleased
IsUnreleasedToday(air_date, today) ==
    IF TruthySeq(air_date)
    THEN LET parsed == StrpDate(air_date) IN
         IF parsed.ok THEN ~DateGT(today, parsed.date) ELSE TRUE
    ELSE TRUE

\* is_unreleased of an episode's air_date on the evaluation date
IsUnreleased(air_date, today) ==
    IF TruthySeq(air_date)
    THEN LET parsed == StrpDate(air_date) IN
         IF parsed.ok THEN DateGT(parsed.date, today) ELSE TRUE
    ELSE TRUE

\* as EpisodeData, the votes copied whatever is_unreleased
EpisodeDataWithVotes(episode, today) ==
    LET air_date == Get(episode, "air_date", NoneSeq) IN
    [episode      |-> Get(episode, "episode_number", NoneNum),
     title        |-> Get(episode, "name", None),
     vote_average |-> Get(episode, "vote_average", NoneNum),
     vote_count   |-> Get(episode, "vote_count", NoneNum),
     air_date     |-> air_date,
     unreleased   |-> IsUnreleased(air_date, today)]

\* episode_data
EpisodeData(episode, today) ==
    LET air_date      == Get(episode, "air_date", NoneSeq)
        is_unreleased == IsUnreleased(air_date, today) IN
    [episode      |-> Get(episode, "episode_number", NoneNum),
     title        |-> Get(episode, "name", None),
     vote_average |-> IF is_unreleased THEN NoneNum
                      ELSE Get(episode, "vote_average", NoneNum),
     vote_count   |-> IF is_unreleased THEN NoneNum
                      ELSE Get(episode, "vote_count", NoneNum),
     air_date     |-> air_date,
     unreleased   |-> is_unreleased]

\* result["seasons"][n] = [] followed by the appends of the episode loop
WithSeason(seasons, n, episodes, today) ==
    [k \in DOMAIN seasons \cup {n} |->
        IF k = n THEN [i \in DOMAIN episodes |-> EpisodeData(episodes[i], today)]
        ELSE seasons[k]]

\* round(x, 1) of a number of thousandths: to the nearest tenth, an exact
\* tie (x.x5 is a binary fraction only as x.25 and x.75) to the even tenth
Round1(x) ==
    LET q == x \div 100
        r == x % 100 IN
    IF r < 50 THEN 100 * q
    ELSE IF r > 50 THEN 100 * (q + 1)
    ELSE IF q % 2 = 0 THEN 100 * q ELSE 100 * (q + 1)

\* " ".join(word.capitalize() for word in name.split()) on the names of
\* the model
TitleCase(name) ==
    CASE name = "the bear" -> "The Bear"
      [] name = "SEVERANCE" -> "Severance"
      [] OTHER -> name

PosterPrefix == "https://image.tmdb.org/t/p/w500"
BackdropPrefix == "https://image.tmdb.org/t/p/original"

\* f"{prefix}{path}" if path else None
ImageUrl(prefix, path) == IF Truthy(path) THEN <<prefix, path>> ELSE NoneSeq

\* series_data, with the secondary ratings when the block is not empty
SeriesData(show, imdb, omdb_ratings) ==
    WithRatings(
        [id             |-> Get(show, "id", NoneNum),
         name           |-> TitleCase(Get(show, "name", "")),
         overview       |-> Get(show, "overview", None),
         first_air_date |-> Get(show, "first_air_date", None),
         vote_average   |-> Round1(Get(show, "vote_average", 0)),
         poster_path    |-> ImageUrl(PosterPrefix, Get(show, "poster_path", None)),
         backdrop_path  |-> ImageUrl(BackdropPrefix, Get(show, "backdrop_path", None)),
         popularity     |-> Get(show, "popularity", NoneNum),
         imdb_id        |-> imdb],
        omdb_ratings)

(***************************************************************************)
(* State.                                                                  *)
(***************************************************************************)
VARIABLES
    omdb_api,         \* self.omdb_api is not None
    op,               \* the operation running or last run, "" before any
    pc,               \* the request the operation is about to send
    outcome,          \* "running", "returned" or "raised"
    exception,        \* the exception raised to the caller, "" when none
    calls,            \* the requests the operation has sent, in order
    log,              \* what the operation has logged, in order
    title,            \* the argument of the operation
    results,          \* the search results, or the items of the trending page
    tv_id, tv_details, imdb_id,
    result,           \* the record under construction, then returned
    regular_seasons, current_date,
    response, trending_series,
    served,           \* per trending item, the responses its turn received
    limit,            \* the limit argument of get_trending_tv_series
    api_key, environ, \* the api_key argument of a constructor, and os.environ
    tmdb_api,         \* State._tmdb_api is set
    handler,          \* the event handler of State running or last run
    step,             \* the call the handler is waiting for
    error_message, series_details, is_loading_details,
    before,           \* series_details when the handler started
    fetches,          \* the runs of the two fetch handlers so far
    is_loading_popular, popular_tv_shows,
    ended             \* how the last run of a fetch handler ended, "" before

vars == <<omdb_api, op, pc, outcome, exception, calls, log, title, results, tv_id,
          tv_details, imdb_id, result, regular_seasons, current_date, response,
          trending_series, served, limit, api_key, environ, tmdb_api, handler,
          step, error_message, series_details, is_loading_details, before, fetches,
          is_loading_popular, popular_tv_shows, ended>>

\* what the operations of the clients leave alone: the arguments and the
\* environment of a constructor, and the fields of State
kvars == <<api_key, environ>>
svars == <<tmdb_api, handler, step, error_message, series_details,
           is_loading_details, before, fetches, is_loading_popular,
           popular_tv_shows, ended>>

\* State.series_details as the class declares it
DefaultSeriesDetails ==
    [title |-> "", poster_path |-> "", vote_average |-> 0, imdb_rating |-> "",
     genres |-> <<>>, overview |-> "", number_of_seasons |-> 0,
     number_of_episodes |-> 0, vote_count |-> 0, networks |-> <<>>]

NoDate == <<0, 0, 0>>
NotCalled == [status |-> "none"]

Init ==
    /\ omdb_api \in BOOLEAN
    /\ op = ""
    /\ pc = "idle"
    /\ outcome = "returned"
    /\ exception = ""
    /\ calls = <<>>
    /\ log = <<>>
    /\ title = None
    /\ results = <<>>
    /\ tv_id = NoneNum
    /\ tv_details = EmptyDict
    /\ imdb_id = None
    /\ result = EmptyDict
    /\ regular_seasons = <<>>
    /\ current_date = NoDate
    /\ response = EmptyDict
    /\ trending_series = <<>>
    /\ served = <<>>
    /\ limit = NoneNum
    /\ api_key = None
    /\ environ = EmptyDict
    /\ tmdb_api = FALSE
    /\ handler = ""
    /\ step = "idle"
    /\ error_message = <<>>
    /\ series_details = DefaultSeriesDetails
    /\ is_loading_details = FALSE
    /\ before = DefaultSeriesDetails
    /\ fetches = 0
    /\ is_loading_popular = FALSE
    /\ popular_tv_shows = <<>>
    /\ ended = ""

\* an operation starts when none is running; it starts from fresh locals
Idle == pc = "idle"

FreshReconcile ==
    /\ tv_details' = EmptyDict
    /\ imdb_id' = None
    /\ regular_seasons' = <<>>
    /\ current_date' = NoDate

FreshTrending ==
    /\ response' = EmptyDict
    /\ trending_series' = <<>>
    /\ served' = <<>>

\* the operation ends by raising exc to its caller
Raise(exc) ==
    /\ pc' = "done"
    /\ outcome' = "raised"
    /\ exception' = exc
    /\ result' = EmptyDict

\* the operation ends by returning r
Return(r) ==
    /\ pc' = "done"
    /\ outcome' = "returned"
    /\ exception' = ""
    /\ result' = r

\* the operation goes on to send the request at, with r under construction
Goto(at, r) ==
    /\ pc' = at
    /\ outcome' = "running"
    /\ exception' = ""
    /\ result' = r

\* external_ids.get("imdb_id") of an answered external-ids request
ExternalId(resp) == IF Failed(resp) THEN None ELSE Get(resp.json, "imdb_id", None)

\* logger.error / logger.warning
Logged(level, msg, about) == [level |-> level, msg |-> msg, about |-> about]

\* except Exception as e: self.logger.error(f"{msg}: {e}"), around a call
\* whose outcome is got: the call's value, or the empty dict the block
\* started from
LogAndDrop(got, msg) ==
    IF got.raised = "" THEN [logged |-> <<>>] @@ got
    ELSE [logged |-> <<Logged("error", msg, got.raised)>>]
           @@ Returned(EmptyDict, got.requests)

\* as MakeRequest, the exception logged and an empty payload returned
MakeRequestSwallowing(endpoint, resp) ==
    IF Failed(resp)
    THEN [raised |-> "", json |-> EmptyDict,
          logged |-> <<Logged("error", "Error making request to", endpoint)>>]
    ELSE [raised |-> "", json |-> resp.json, logged |-> <<>>]

\* TMDbAPI._make_request: the decoded payload, or the RequestException of
\* the transport, logged with the url and raised again (the line logged
\* for the body of an error response is left out)
MakeRequest(endpoint, resp) ==
    IF Failed(resp)
    THEN [raised |-> "RequestException", json |-> EmptyDict,
          logged |-> <<Logged("error", "Error making request to", endpoint)>>]
    ELSE [raised |-> "", json |-> resp.json, logged |-> <<>>]

\* as TMDbInit, the ValueError of the ratings client left to the caller
TMDbInitStrict(key, env) ==
    IF ~Truthy(KeyFrom(key, env, "TMDB_API_KEY")) \/ OMDbInit(None, env).raised # ""
    THEN [raised |-> "ValueError", omdb_api |-> FALSE, logged |-> <<>>]
    ELSE [raised |-> "", omdb_api |-> TRUE, logged |-> <<>>]

\* TMDbAPI.__init__(api_key): ValueError without a key; else the client,
\* its omdb_api an OMDbAPI() made from the environment, or None with a
\* warning logged when that raised ValueError
TMDbInit(key, env) ==
    IF ~Truthy(KeyFrom(key, env, "TMDB_API_KEY"))
    THEN [raised |-> "ValueError", omdb_api |-> FALSE, logged |-> <<>>]
    ELSE IF OMDbInit(None, env).raised = "ValueError"
    THEN [raised |-> "", omdb_api |-> FALSE,
          logged |-> <<Logged("warning", "OMDb API key not found", "ValueError")>>]
    ELSE [raised |-> "", omdb_api |-> TRUE, logged |-> <<>>]

(***************************************************************************)
(* TMDbAPI.get_tv_details(title)                                           *)
(***************************************************************************)
\* as TvTryRatings, without the try block
TvTryRatingsUncaught(imdb, ratResp) ==
    [logged |-> <<>>] @@ GetRatings(None, imdb, Failure, ratResp)

\* the try block around get_ratings: every exception is logged and dropped
TvTryRatings(imdb, ratResp) ==
    LogAndDrop(GetRatings(None, imdb, Failure, ratResp), "Error getting OMDb ratings")

\* /search/tv, and the not-found return
TvSearch(t, resp) ==
    LET got   == MakeRequest("/search/tv", resp)
        found == Get(got.json, "results", <<>>) IN
    /\ Idle
    /\ op' = "get_tv_details"
    /\ title' = t
    /\ calls' = <<TmdbRequest("/search/tv", NoneNum)>>
    /\ log' = got.logged
    /\ results' = found
    /\ FreshReconcile
    /\ FreshTrending
    /\ IF got.raised # "" THEN Raise(got.raised) /\ tv_id' = NoneNum
       ELSE IF found = <<>> THEN Return(NotFound(t)) /\ tv_id' = NoneNum
       ELSE Goto("details", EmptyDict) /\ tv_id' = Get(found[1], "id", NoneNum)
    /\ UNCHANGED omdb_api
    /\ UNCHANGED <<limit, kvars, svars>>

\* as TvDetails, the request sent again after a failure
TvDetailsRetrying(resp) ==
    LET got == MakeRequest("/tv/{id}", resp) IN
    /\ op = "get_tv_details" /\ pc = "details"
    /\ calls' = Append(calls, TmdbRequest("/tv/{id}", tv_id))
    /\ log' = log \o got.logged
    /\ IF got.raised # "" THEN Goto("details", EmptyDict) /\ tv_details' = tv_details
       ELSE Goto("external_ids", EmptyDict) /\ tv_details' = got.json
    /\ UNCHANGED <<omdb_api, op, title, results, tv_id, imdb_id, regular_seasons,
                   current_date, response, trending_series, served>>
    /\ UNCHANGED <<limit, kvars, svars>>

\* /tv/{id}
TvDetails(resp) ==
    LET got == MakeRequest("/tv/{id}", resp) IN
    /\ op = "get_tv_details" /\ pc = "details"
    /\ calls' = Append(calls, TmdbRequest("/tv/{id}", tv_id))
    /\ log' = log \o got.logged
    /\ IF got.raised # "" THEN Raise(got.raised) /\ tv_details' = tv_details
       ELSE Goto("external_ids", EmptyDict) /\ tv_details' = got.json
    /\ UNCHANGED <<omdb_api, op, title, results, tv_id, imdb_id, regular_seasons,
                   current_date, response, trending_series, served>>
    /\ UNCHANGED <<limit, kvars, svars>>

\* /tv/{id}/external_ids, and the record; the return when no ratings
\* request follows
TvExternalIds(resp) ==
    LET got  == MakeRequest("/tv/{id}/external_ids", resp)
        imdb == Get(got.json, "imdb_id", None)
        r    == TvResult(tv_details, tv_id, imdb) IN
    /\ op = "get_tv_details" /\ pc = "external_ids"
    /\ calls' = Append(calls, TmdbRequest("/tv/{id}/external_ids", tv_id))
    /\ log' = log \o got.logged
    /\ IF got.raised # "" THEN Raise(got.raised) /\ imdb_id' = imdb_id
       ELSE /\ imdb_id' = imdb
            /\ IF omdb_api /\ Truthy(imdb) THEN Goto("ratings", r) ELSE Return(r)
    /\ UNCHANGED <<omdb_api, op, title, results, tv_id, tv_details, regular_seasons,
                   current_date, response, trending_series, served>>
    /\ UNCHANGED <<limit, kvars, svars>>

\* omdb_api.get_ratings(imdb_id=imdb_id) and the return
TvRatings(ratResp) ==
    LET got == TvTryRatings(imdb_id, ratResp) IN
    /\ op = "get_tv_details" /\ pc = "ratings"
    /\ calls' = calls \o got.requests
    /\ log' = log \o got.logged
    /\ IF got.raised # "" THEN Raise(got.raised)
       ELSE Return(WithRatings(result, got.value))
    /\ UNCHANGED <<omdb_api, op, title, results, tv_id, tv_details, imdb_id,
                   regular_seasons, current_date, response, trending_series, served>>
    /\ UNCHANGED <<limit, kvars, svars>>

(***************************************************************************)
(* TMDbAPI.get_all_episodes_ratings(title)                                 *)
(***************************************************************************)
\* the try block around get_ratings: every exception is logged and dropped
GridTryRatings(imdb, ratResp) ==
    LogAndDrop(GetRatings(None, imdb, Failure, ratResp), "Error getting OMDb ratings")

\* the number of episodes in the grid
RECURSIVE EpisodeCount(_)
EpisodeCount(seasons) ==
    IF DOMAIN seasons = {} THEN 0
    ELSE LET n == CHOOSE k \in DOMAIN seasons : TRUE IN
         Len(seasons[n]) + EpisodeCount([k \in DOMAIN seasons \ {n} |-> seasons[k]])

\* the season requests sent so far: the position of the loop over
\* regular_seasons
SeasonCalls == SelectSeq(calls, LAMBDA c : c.endpoint = "/tv/{id}/season/{n}")

\* what follows the secondary ratings: the evaluation date is read and the
\* loop over the regular seasons starts, or the record is returned when
\* there is none
GridLoop(r, today) ==
    /\ regular_seasons' = RegularSeasons(Get(tv_details, "seasons", <<>>))
    /\ current_date' = today
    /\ IF regular_seasons' = <<>> THEN Return(r) ELSE Goto("season", r)

\* /search/tv, and the not-found return
GridSearch(t, resp) ==
    LET got   == MakeRequest("/search/tv", resp)
        found == Get(got.json, "results", <<>>) IN
    /\ Idle
    /\ op' = "get_all_episodes_ratings"
    /\ title' = t
    /\ calls' = <<TmdbRequest("/search/tv", NoneNum)>>
    /\ log' = got.logged
    /\ results' = found
    /\ FreshReconcile
    /\ FreshTrending
    /\ IF got.raised # "" THEN Raise(got.raised) /\ tv_id' = NoneNum
       ELSE IF found = <<>> THEN Return(NotFound(t)) /\ tv_id' = NoneNum
       ELSE Goto("details", EmptyDict) /\ tv_id' = Get(found[1], "id", NoneNum)
    /\ UNCHANGED omdb_api
    /\ UNCHANGED <<limit, kvars, svars>>

\* /tv/{id}
GridDetails(resp) ==
    LET got == MakeRequest("/tv/{id}", resp) IN
    /\ op = "get_all_episodes_ratings" /\ pc = "details"
    /\ calls' = Append(calls, TmdbRequest("/tv/{id}", tv_id))
    /\ log' = log \o got.logged
    /\ IF got.raised # "" THEN Raise(got.raised) /\ tv_details' = tv_details
       ELSE Goto("external_ids", EmptyDict) /\ tv_details' = got.json
    /\ UNCHANGED <<omdb_api, op, title, results, tv_id, imdb_id, regular_seasons,
                   current_date, response, trending_series, served>>
    /\ UNCHANGED <<limit, kvars, svars>>

\* /tv/{id}/external_ids, and the record
GridExternalIds(resp, today) ==
    LET got  == MakeRequest("/tv/{id}/external_ids", resp)
        imdb == Get(got.json, "imdb_id", None)
        r    == GridResult(tv_details, tv_id, imdb) IN
    /\ op = "get_all_episodes_ratings" /\ pc = "external_ids"
    /\ calls' = Append(calls, TmdbRequest("/tv/{id}/external_ids", tv_id))
    /\ log' = log \o got.logged
    /\ IF got.raised # ""
       THEN /\ Raise(got.raised)
            /\ UNCHANGED <<imdb_id, regular_seasons, current_date>>
       ELSE /\ imdb_id' = imdb
            /\ IF omdb_api /\ Truthy(imdb)
               THEN /\ Goto("ratings", r)
                    /\ UNCHANGED <<regular_seasons, current_date>>
               ELSE GridLoop(r, today)
    /\ UNCHANGED <<omdb_api, op, title, results, tv_id, tv_details, response,
                   trending_series, served>>
    /\ UNCHANGED <<limit, kvars, svars>>

\* omdb_api.get_ratings(imdb_id=imdb_id)
GridRatings(ratResp, today) ==
    LET got == GridTryRatings(imdb_id, ratResp) IN
    /\ op = "get_all_episodes_ratings" /\ pc = "ratings"
    /\ calls' = calls \o got.requests
    /\ log' = log \o got.logged
    /\ IF got.raised # ""
       THEN /\ Raise(got.raised)
            /\ UNCHANGED <<regular_seasons, current_date>>
       ELSE GridLoop(WithRatings(result, got.value), today)
    /\ UNCHANGED <<omdb_api, op, title, results, tv_id, tv_details, imdb_id, response,
                   trending_series, served>>
    /\ UNCHANGED <<limit, kvars, svars>>

\* one turn of the loop over the regular seasons: /tv/{id}/season/{n} and
\* the loop over its episodes; the return after the last season
GridSeason(resp) ==
    LET got      == MakeRequest("/tv/{id}/season/{n}", resp)
        turn     == Len(SeasonCalls) + 1
        n        == Get(regular_seasons[turn], "season_number", NoneNum)
        episodes == Get(got.json, "episodes", <<>>)
        r        == [result EXCEPT
                       !.seasons = WithSeason(@, n, episodes, current_date)] IN
    /\ op = "get_all_episodes_ratings" /\ pc = "season"
    /\ Failed(resp) \/ Len(episodes) + EpisodeCount(result.seasons) <= MaxEpisodes
    /\ calls' = Append(calls, TmdbRequest("/tv/{id}/season/{n}", n))
    /\ log' = log \o got.logged
    /\ IF got.raised # "" THEN Raise(got.raised)
       ELSE IF turn = Len(regular_seasons) THEN Return(r) ELSE Goto("season", r)
    /\ UNCHANGED <<omdb_api, op, title, results, tv_id, tv_details, imdb_id,
                   regular_seasons, current_date, response, trending_series, served>>
    /\ UNCHANGED <<limit, kvars, svars>>

(***************************************************************************)
(* TMDbAPI.get_trending_tv_series(time_window, page, limit)                *)
(***************************************************************************)
TimeWindows == {"day", "week", "month"}

\* as EnrichRatings, the ratings request made whether or not there is a
\* ratings client
EnrichRatingsUnguarded(omdb, imdb, ratResp) ==
    LogAndDrop(GetRatings(None, imdb, Failure, ratResp), "Error getting OMDb ratings")

\* the inner try block of a turn of the loop over the page: the ratings
\* request when there is a ratings client and an external id
EnrichRatings(omdb, imdb, ratResp) ==
    IF omdb /\ Truthy(imdb)
    THEN LogAndDrop(GetRatings(None, imdb, Failure, ratResp), "Error getting OMDb ratings")
    ELSE [logged |-> <<>>] @@ Returned(EmptyDict, <<>>)

\* as EnrichFrom, without the outer try block
EnrichFromUncaught(req, ext, imdb, rat) ==
    IF ext.raised # ""
    THEN [raised |-> ext.raised, imdb_id |-> None, omdb_ratings |-> EmptyDict,
          requests |-> <<req>>, logged |-> ext.logged]
    ELSE [raised |-> "", imdb_id |-> imdb, omdb_ratings |-> rat.value,
          requests |-> <<req>> \o rat.requests, logged |-> rat.logged]

\* as EnrichFrom, the external id dropped with the ratings when the ratings
\* call failed
EnrichFromDroppingId(req, ext, imdb, rat) ==
    IF ext.raised # ""
    THEN [raised |-> "", imdb_id |-> None, omdb_ratings |-> EmptyDict,
          requests |-> <<req>>,
          logged |-> ext.logged
                       \o <<Logged("error", "Error getting external IDs", ext.raised)>>]
    ELSE [raised |-> "", imdb_id |-> IF rat.logged # <<>> THEN None ELSE imdb,
          omdb_ratings |-> rat.value,
          requests |-> <<req>> \o rat.requests, logged |-> rat.logged]

\* the turn after the external-ids request ext, rat being the outcome of
\* the inner try block: an exception of the request is logged and dropped,
\* and leaves the imdb_id and omdb_ratings the turn started from
EnrichFrom(req, ext, imdb, rat) ==
    IF ext.raised # ""
    THEN [raised |-> "", imdb_id |-> None, omdb_ratings |-> EmptyDict,
          requests |-> <<req>>,
          logged |-> ext.logged
                       \o <<Logged("error", "Error getting external IDs", ext.raised)>>]
    ELSE [raised |-> "", imdb_id |-> imdb, omdb_ratings |-> rat.value,
          requests |-> <<req>> \o rat.requests, logged |-> rat.logged]

\* the body of one turn of the loop over the page, up to series_data: the
\* external-ids request and the ratings request.  The two try blocks catch
\* every exception, so the turn never raises.
Enrich(show, omdb, extResp, ratResp) ==
    EnrichFrom(TmdbRequest("/tv/{id}/external_ids", Get(show, "id", NoneNum)),
               MakeRequest("/tv/{id}/external_ids", extResp),
               ExternalId(extResp),
               EnrichRatings(omdb, ExternalId(extResp), ratResp))

\* the page the operation returns
TrendingPage(json, series) ==
    [page          |-> Get(json, "page", 1),
     total_pages   |-> Get(json, "total_pages", 1),
     total_results |-> Get(json, "total_results", 0),
     results       |-> series]

\* /trending/tv/{window}, an invalid window replaced by week; the error
\* return; the return of an empty page
TrendingFetch(time_window, lim, resp) ==
    LET valid  == time_window \in {"day", "week"}
        window == IF valid THEN time_window ELSE "week"
        warned == IF valid THEN <<>>
                  ELSE <<Logged("warning", "Invalid time window specified", time_window)>>
        got    == MakeRequest("/trending/tv/", resp)
        page   == Take(Get(got.json, "results", <<>>), lim) IN
    /\ Idle
    /\ op' = "get_trending_tv_series"
    /\ title' = None
    /\ tv_id' = NoneNum
    /\ FreshReconcile
    /\ calls' = <<[api |-> "tmdb", endpoint |-> "/trending/tv/", window |-> window]>>
    /\ log' = warned \o got.logged
    /\ trending_series' = <<>>
    /\ served' = <<>>
    /\ IF got.raised # ""
       THEN Raise(got.raised) /\ response' = EmptyDict /\ results' = <<>>
       ELSE /\ response' = got.json
            /\ results' = page
            /\ IF "results" \notin DOMAIN got.json
               THEN Return([error |-> <<"Failed to fetch trending TV series data">>])
               ELSE IF page = <<>> THEN Return(TrendingPage(got.json, <<>>))
               ELSE Goto("item", EmptyDict)
    /\ limit' = lim
    /\ UNCHANGED <<omdb_api, kvars, svars>>

\* one turn of the loop over the page; the return after the last item
TrendingItem(extResp, ratResp) ==
    LET show   == results[Len(trending_series) + 1]
        got    == Enrich(show, omdb_api, extResp, ratResp)
        called == Len(got.requests) = 2
        series == Append(trending_series,
                         SeriesData(show, got.imdb_id, got.omdb_ratings)) IN
    /\ op = "get_trending_tv_series" /\ pc = "item"
    /\ ~called => ratResp = Failure
    /\ calls' = calls \o got.requests
    /\ log' = log \o got.logged
    /\ served' = Append(served, [ext |-> extResp,
                                 rat |-> IF called THEN ratResp ELSE NotCalled])
    /\ IF got.raised # "" THEN Raise(got.raised) /\ UNCHANGED trending_series
       ELSE /\ trending_series' = series
            /\ IF Len(series) = Len(results)
               THEN Return(TrendingPage(response, series))
               ELSE Goto("item", EmptyDict)
    /\ UNCHANGED <<omdb_api, op, title, results, tv_id, tv_details, imdb_id,
                   regular_seasons, current_date, response>>
    /\ UNCHANGED <<limit, kvars, svars>>

(***************************************************************************)
(* OMDbAPI.get_series_details(title, imdb_id), called on the ratings       *)
(* client                                                                  *)
(***************************************************************************)
OmdbTitles == {None, "", "Severance"}
OmdbIds == {None, "", "tt11280740"}

SeriesDetailsCall(t, id, resp) ==
    LET got == GetSeriesDetails(t, id, resp) IN
    /\ Idle
    /\ omdb_api
    /\ op' = "get_series_details"
    /\ title' = t
    /\ imdb_id' = id
    /\ calls' = got.requests
    /\ log' = <<>>
    /\ IF got.raised # "" THEN Raise(got.raised) ELSE Return(got.value)
    /\ results' = <<>>
    /\ tv_id' = NoneNum
    /\ tv_details' = EmptyDict
    /\ regular_seasons' = <<>>
    /\ current_date' = NoDate
    /\ FreshTrending
    /\ UNCHANGED omdb_api
    /\ UNCHANGED <<limit, kvars, svars>>

(***************************************************************************)
(* OMDbAPI.get_ratings(title, imdb_id), called on the ratings client.      *)
(* results holds what the search returned, served the answers the call     *)
(* received.                                                               *)
(***************************************************************************)
RatingTitles == {None, "Severence", "SEVERANCE", "Severance"}

RatingsCall(t, id, searchResp, detailResp) ==
    LET searched == Truthy(t) /\ ~Truthy(id)
        search   == IF searched THEN SearchSeries(t, searchResp)
                    ELSE Returned(<<>>, <<>>)
        got      == GetRatings(t, id, searchResp, detailResp)
        looked   == Len(got.requests) > Len(search.requests) IN
    /\ Idle
    /\ omdb_api
    /\ ~searched => searchResp = Failure
    /\ ~looked => detailResp = Failure
    /\ op' = "get_ratings"
    /\ title' = t
    /\ imdb_id' = id
    /\ calls' = got.requests
    /\ log' = <<>>
    /\ results' = search.value
    /\ served' = <<[search |-> IF searched THEN searchResp ELSE NotCalled,
                    detail |-> IF looked THEN detailResp ELSE NotCalled]>>
    /\ IF got.raised # "" THEN Raise(got.raised) ELSE Return(got.value)
    /\ tv_id' = NoneNum
    /\ tv_details' = EmptyDict
    /\ regular_seasons' = <<>>
    /\ current_date' = NoDate
    /\ response' = EmptyDict
    /\ trending_series' = <<>>
    /\ UNCHANGED omdb_api
    /\ UNCHANGED <<limit, kvars, svars>>

(***************************************************************************)
(* The constructors: TMDbAPI(api_key) and OMDbAPI(api_key), in an          *)
(* environment that has each of the two keys or not.  A TMDbAPI made       *)
(* replaces the client the operations are called on.                       *)
(***************************************************************************)
ApiKeys == {None, "", "key"}
Environments ==
    {EmptyDict,
     [TMDB_API_KEY |-> "tmdb-key"],
     [OMDB_API_KEY |-> "omdb-key"],
     [TMDB_API_KEY |-> "tmdb-key", OMDB_API_KEY |-> "omdb-key"],
     [TMDB_API_KEY |-> "", OMDB_API_KEY |-> ""]}

\* a constructor runs no operation: their locals stay as they are between
\* calls
Constructing ==
    /\ title' = None
    /\ imdb_id' = None
    /\ calls' = <<>>
    /\ results' = <<>>
    /\ tv_id' = NoneNum
    /\ tv_details' = EmptyDict
    /\ regular_seasons' = <<>>
    /\ current_date' = NoDate
    /\ FreshTrending
    /\ limit' = NoneNum

NewTMDbAPI(key, env) ==
    LET got == TMDbInit(key, env) IN
    /\ Idle
    /\ op' = "TMDbAPI.__init__"
    /\ api_key' = key
    /\ environ' = env
    /\ log' = got.logged
    /\ IF got.raised # "" THEN Raise(got.raised) /\ UNCHANGED omdb_api
       ELSE Return(EmptyDict) /\ omdb_api' = got.omdb_api
    /\ Constructing
    /\ UNCHANGED svars

NewOMDbAPI(key, env) ==
    LET got == OMDbInit(key, env) IN
    /\ Idle
    /\ op' = "OMDbAPI.__init__"
    /\ api_key' = key
    /\ environ' = env
    /\ log' = <<>>
    /\ IF got.raised # "" THEN Raise(got.raised) ELSE Return(got.value)
    /\ Constructing
    /\ UNCHANGED <<omdb_api, svars>>

(***************************************************************************)
(* The caller takes the outcome; the locals of the call are dropped.       *)
(***************************************************************************)
Finish ==
    /\ pc = "done"
    /\ pc' = "idle"
    /\ op' = ""
    /\ outcome' = "returned"
    /\ exception' = ""
    /\ calls' = <<>>
    /\ log' = <<>>
    /\ title' = None
    /\ results' = <<>>
    /\ tv_id' = NoneNum
    /\ result' = EmptyDict
    /\ FreshReconcile
    /\ FreshTrending
    /\ limit' = NoneNum
    /\ api_key' = None
    /\ environ' = EmptyDict
    /\ UNCHANGED omdb_api

(***************************************************************************)
(* The specification.                                                      *)
(***************************************************************************)
Next ==
    \/ \E t \in Titles, resp \in SearchResponses : TvSearch(t, resp)
    \/ \E resp \in DetailsResponses : TvDetails(resp)
    \/ \E resp \in ExternalIdsResponses : TvExternalIds(resp)
    \/ \E resp \in OmdbEnrichResponses : TvRatings(resp)
    \/ \E t \in Titles, resp \in SearchResponses : GridSearch(t, resp)
    \/ \E resp \in DetailsResponses : GridDetails(resp)
    \/ \E resp \in ExternalIdsResponses, today \in EvalDates : GridExternalIds(resp, today)
    \/ \E resp \in OmdbEnrichResponses, today \in EvalDates : GridRatings(resp, today)
    \/ \E resp \in SeasonResponses : GridSeason(resp)
    \/ \E w \in TimeWindows, lim \in 1..MaxItems, resp \in TrendingResponses :
          TrendingFetch(w, lim, resp)
    \/ \E extResp \in ExternalIdsResponses, ratResp \in OmdbEnrichResponses :
          TrendingItem(extResp, ratResp)
    \/ \E t \in OmdbTitles, id \in OmdbIds, resp \in OmdbDetailResponses :
          SeriesDetailsCall(t, id, resp)
    \/ \E t \in RatingTitles, id \in OmdbIds, searchResp \in OmdbSearchResponses,
             detailResp \in OmdbDetailResponses :
          RatingsCall(t, id, searchResp, detailResp)
    \/ \E key \in ApiKeys, env \in Environments : NewTMDbAPI(key, env)
    \/ \E key \in ApiKeys, env \in Environments : NewOMDbAPI(key, env)
    \/ Finish /\ UNCHANGED svars

Spec == Init /\ [][Next]_vars

(***************************************************************************)
(* State (state.py): the event handlers on_load, fetch_series_details and  *)
(* fetch_popular_tv_shows.                                                 *)
(* A handler calls the operations of TMDbAPI one after the other; each     *)
(* runs by the steps above, and the handler goes on when it has ended.     *)
(***************************************************************************)
sample_series_title == "Severance"

\* no handler is running
HandlerIdle == step = "idle" /\ Idle

\* the locals of the operations, which a handler that is not calling one
\* leaves alone
locals == <<op, pc, outcome, exception, calls, log, title, results, tv_id,
            tv_details, imdb_id, result, regular_seasons, current_date, response,
            trending_series, served, limit, api_key, environ>>

\* f"Failed to fetch series details: {str(e)}"
FailedToFetch(exc) == <<"Failed to fetch series details: ", exc>>

\* on_load: TMDbAPI() is made; its ValueError becomes the error message
on_load(env) ==
    LET got == TMDbInit(None, env) IN
    /\ HandlerIdle
    /\ handler' = "on_load"
    /\ IF got.raised # ""
       THEN /\ error_message' = <<"TMDb API key is required">>
            /\ UNCHANGED <<tmdb_api, omdb_api>>
       ELSE /\ tmdb_api' = TRUE
            /\ omdb_api' = got.omdb_api
            /\ UNCHANGED error_message
    /\ ended' = ""
    /\ UNCHANGED <<step, series_details, is_loading_details, before, fetches,
                   is_loading_popular, popular_tv_shows>>
    /\ UNCHANGED locals

\* fetch_series_details up to its call of get_tv_details: the flag is set,
\* the message cleared, and the client made when there is none; the
\* ValueError of the constructor ends the handler
fetch_series_details(env) ==
    LET got == TMDbInit(None, env) IN
    /\ HandlerIdle
    /\ fetches < MaxFetches
    /\ fetches' = fetches + 1
    /\ handler' = "fetch_series_details"
    /\ before' = series_details
    /\ IF tmdb_api
       THEN /\ step' = "get_tv_details"
            /\ error_message' = <<>>
            /\ is_loading_details' = TRUE
            /\ ended' = ""
            /\ UNCHANGED <<tmdb_api, omdb_api>>
       ELSE IF got.raised # ""
       THEN /\ step' = "idle"
            /\ error_message' = FailedToFetch(got.raised)
            /\ is_loading_details' = FALSE
            /\ ended' = "missing credential"
            /\ UNCHANGED <<tmdb_api, omdb_api>>
       ELSE /\ step' = "get_tv_details"
            /\ error_message' = <<>>
            /\ is_loading_details' = TRUE
            /\ ended' = ""
            /\ tmdb_api' = TRUE
            /\ omdb_api' = got.omdb_api
    /\ UNCHANGED <<series_details, is_loading_popular, popular_tv_shows>>
    /\ UNCHANGED locals

\* get_tv_details has ended: its exception or its error record becomes the
\* error message and ends the handler; else its record is stored and
\* get_all_episodes_ratings is called
DetailsTaken ==
    /\ step = "get_tv_details" /\ pc = "done"
    /\ IF outcome = "raised"
       THEN /\ error_message' = FailedToFetch(exception)
            /\ step' = "idle"
            /\ is_loading_details' = FALSE
            /\ ended' = "exception"
            /\ UNCHANGED series_details
       ELSE IF "error" \in DOMAIN result
       THEN /\ error_message' = result.error
            /\ step' = "idle"
            /\ is_loading_details' = FALSE
            /\ ended' = "error record"
            /\ UNCHANGED series_details
       ELSE /\ series_details' = result
            /\ step' = "get_all_episodes_ratings"
            /\ UNCHANGED <<error_message, is_loading_details, ended>>
    /\ Finish
    /\ UNCHANGED <<tmdb_api, handler, before, fetches, is_loading_popular,
                   popular_tv_shows>>

\* get_all_episodes_ratings has ended: its exception becomes the error
\* message; the seasons of a grid are stored in the record; the handler
\* ends
EpisodesTaken ==
    /\ step = "get_all_episodes_ratings" /\ pc = "done"
    /\ IF outcome = "raised"
       THEN /\ error_message' = FailedToFetch(exception)
            /\ ended' = "exception"
            /\ UNCHANGED series_details
       ELSE /\ series_details' =
                  IF "error" \notin DOMAIN result /\ "seasons" \in DOMAIN result
                  THEN [seasons_data |-> result.seasons] @@ series_details
                  ELSE series_details
            /\ ended' = IF "error" \in DOMAIN result THEN "episodes error record"
                        ELSE "success"
            /\ UNCHANGED error_message
    /\ step' = "idle"
    /\ is_loading_details' = FALSE
    /\ Finish
    /\ UNCHANGED <<tmdb_api, handler, before, fetches, is_loading_popular,
                   popular_tv_shows>>

\* limit=12 of the call of get_trending_tv_series
popular_limit == 12

\* f"Failed to fetch popular TV shows: {str(e)}"
FailedToFetchPopular(exc) == <<"Failed to fetch popular TV shows: ", exc>>

\* fetch_popular_tv_shows up to its call of get_trending_tv_series: the
\* flag is set, the message cleared, and the client made when there is
\* none; the ValueError of the constructor ends the handler
fetch_popular_tv_shows(env) ==
    LET got == TMDbInit(None, env) IN
    /\ HandlerIdle
    /\ fetches < MaxFetches
    /\ fetches' = fetches + 1
    /\ handler' = "fetch_popular_tv_shows"
    /\ IF tmdb_api
       THEN /\ step' = "get_trending_tv_series"
            /\ error_message' = <<>>
            /\ is_loading_popular' = TRUE
            /\ ended' = ""
            /\ UNCHANGED <<tmdb_api, omdb_api>>
       ELSE IF got.raised # ""
       THEN /\ step' = "idle"
            /\ error_message' = FailedToFetchPopular(got.raised)
            /\ is_loading_popular' = FALSE
            /\ ended' = "missing credential"
            /\ UNCHANGED <<tmdb_api, omdb_api>>
       ELSE /\ step' = "get_trending_tv_series"
            /\ error_message' = <<>>
            /\ is_loading_popular' = TRUE
            /\ ended' = ""
            /\ tmdb_api' = TRUE
            /\ omdb_api' = got.omdb_api
    /\ UNCHANGED <<series_details, is_loading_details, before, popular_tv_shows>>
    /\ UNCHANGED locals

\* as PopularTaken, without the finally clause: the flag is reset only on
\* the way out of the try block
PopularTakenNoFinally ==
    /\ step = "get_trending_tv_series" /\ pc = "done"
    /\ IF outcome = "raised"
       THEN /\ error_message' = FailedToFetchPopular(exception)
            /\ ended' = "exception"
            /\ UNCHANGED <<popular_tv_shows, is_loading_popular>>
       ELSE IF "error" \in DOMAIN result
       THEN /\ error_message' = result.error
            /\ ended' = "error record"
            /\ is_loading_popular' = FALSE
            /\ UNCHANGED popular_tv_shows
       ELSE /\ popular_tv_shows' = Get(result, "results", <<>>)
            /\ ended' = "success"
            /\ is_loading_popular' = FALSE
            /\ UNCHANGED error_message
    /\ step' = "idle"
    /\ Finish
    /\ UNCHANGED <<tmdb_api, handler, before, fetches, series_details,
                   is_loading_details>>

\* get_trending_tv_series has ended: its exception or its error record
\* becomes the error message; else its results are stored; the handler
\* ends
PopularTaken ==
    /\ step = "get_trending_tv_series" /\ pc = "done"
    /\ IF outcome = "raised"
       THEN /\ error_message' = FailedToFetchPopular(exception)
            /\ ended' = "exception"
            /\ UNCHANGED popular_tv_shows
       ELSE IF "error" \in DOMAIN result
       THEN /\ error_message' = result.error
            /\ ended' = "error record"
            /\ UNCHANGED popular_tv_shows
       ELSE /\ popular_tv_shows' = Get(result, "results", <<>>)
            /\ ended' = "success"
            /\ UNCHANGED error_message
    /\ step' = "idle"
    /\ is_loading_popular' = FALSE
    /\ Finish
    /\ UNCHANGED <<tmdb_api, handler, before, fetches, series_details,
                   is_loading_details>>

\* what the providers answer to the requests of a handler's calls: a failed
\* request, a reply without the expected entries, and replies with them
StateDetailsResponses ==
    {Failure, Ok(DetailsSparse),
     Ok([seasons |-> <<[season_number |-> 0], [season_number |-> 1]>>] @@ DetailsFull)}

StateSeasonResponses ==
    {Failure, Ok([id |-> 1]),
     Ok([episodes |->
           <<[episode_number |-> 1, name |-> "Pilot", vote_average |-> 8743,
              vote_count |-> 120,
              air_date |-> <<"2","0","2","4","-","0","6","-","1","4">>],
             [episode_number |-> 3, name |-> "Soon", vote_average |-> 9100,
              vote_count |-> 3,
              air_date |-> <<"2","0","2","4","-","0","6","-","1","6">>]>>])}

StateTrendingResponses ==
    {Failure, Ok(EmptyDict), Ok([results |-> <<>>]),
     Ok([page |-> 1, total_pages |-> 5, total_results |-> 100,
         results |-> <<[id |-> 1, name |-> "the bear", overview |-> "A chef returns.",
                        first_air_date |-> "2022-06-23", vote_average |-> 8743,
                        poster_path |-> "/abc.jpg", backdrop_path |-> "/bd.jpg",
                        popularity |-> 120],
                       [id |-> 3]>>])}

StateInit == Init /\ ~omdb_api

StateNext ==
    \/ \E env \in Environments : on_load(env)
    \/ \E env \in Environments : fetch_series_details(env)
    \/ \E resp \in SearchResponses :
          step = "get_tv_details" /\ TvSearch(sample_series_title, resp)
    \/ \E resp \in StateDetailsResponses : TvDetails(resp)
    \/ \E resp \in ExternalIdsResponses : TvExternalIds(resp)
    \/ \E resp \in OmdbEnrichResponses : TvRatings(resp)
    \/ DetailsTaken
    \/ \E resp \in SearchResponses :
          step = "get_all_episodes_ratings" /\ GridSearch(sample_series_title, resp)
    \/ \E resp \in StateDetailsResponses : GridDetails(resp)
    \/ \E resp \in ExternalIdsResponses, today \in EvalDates : GridExternalIds(resp, today)
    \/ \E resp \in OmdbEnrichResponses, today \in EvalDates : GridRatings(resp, today)
    \/ \E resp \in StateSeasonResponses : GridSeason(resp)
    \/ EpisodesTaken
    \/ \E env \in Environments : fetch_popular_tv_shows(env)
    \/ \E resp \in StateTrendingResponses :
          step = "get_trending_tv_series" /\ TrendingFetch("week", popular_limit, resp)
    \/ \E extResp \in ExternalIdsResponses, ratResp \in OmdbEnrichResponses :
          TrendingItem(extResp, ratResp)
    \/ PopularTaken

StateSpec == StateInit /\ [][StateNext]_vars

(***************************************************************************)
(* Properties.                                                             *)
(***************************************************************************)
Reconciling == op \in {"get_tv_details", "get_all_episodes_ratings"}
Done == pc = "done"
HasReturned == pc = "done" /\ outcome = "returned"

\* the elements of a sequence
Range(xs) == {xs[i] : i \in DOMAIN xs}

\* the episode records of the grid under construction or returned
GridEpisodes ==
    IF op = "get_all_episodes_ratings" /\ "seasons" \in DOMAIN result
    THEN UNION {Range(result.seasons[n]) : n \in DOMAIN result.seasons}
    ELSE {}

\* the episode the provider sent, by its number
ProviderEpisode(e) == CHOOSE d \in EpisodeDicts : d.episode_number = e.episode

\* C1: every episode record of the grid whose unreleased flag is true has a
\* null vote_average and a null vote_count, whatever the provider sent.
C1_UnreleasedHasNoVotes ==
    \A e \in GridEpisodes :
        e.unreleased => e.vote_average = NoneNum /\ e.vote_count = NoneNum

\* a returned grid with an unreleased episode for which the provider sent a
\* rating and a vote count
C1_Witness ==
    /\ HasReturned
    /\ \E e \in GridEpisodes :
          /\ e.unreleased
          /\ ProviderEpisode(e).vote_average # NoneNum
          /\ ProviderEpisode(e).vote_count # NoneNum

\* C2: an episode of the grid is unreleased exactly when the provider's
\* air_date is absent (null or empty), or is no date in the format
\* %Y-%m-%d, or is a date after the evaluation date; a released episode
\* carries the provider's vote_average and vote_count.
C2_UnreleasedIff ==
    \A e \in GridEpisodes :
        LET sent   == ProviderEpisode(e)
            absent == sent.air_date = NoneSeq \/ sent.air_date = <<>>
            parsed == StrpDate(sent.air_date) IN
        /\ e.air_date = sent.air_date
        /\ e.unreleased <=>
             (absent \/ ~parsed.ok \/ DateGT(parsed.date, current_date))
        /\ ~e.unreleased => /\ e.vote_average = sent.vote_average
                            /\ e.vote_count = sent.vote_count

\* a returned grid with an episode aired on the evaluation date, released
C2_Witness ==
    /\ HasReturned
    /\ \E e \in GridEpisodes :
          /\ StrpDate(e.air_date).ok
          /\ StrpDate(e.air_date).date = current_date
          /\ ~e.unreleased
          /\ e.vote_average = 7250

\* the season numbers of the provider's seasons list that are above 0
ProviderRegular ==
    {s.season_number :
        s \in {x \in Range(Get(tv_details, "seasons", <<>>)) :
                  "season_number" \in DOMAIN x /\ x.season_number >= 1}}

\* C7: every key of the grid is a season number above 0; no season request
\* is sent for a season numbered 0 or less (or unnumbered); and the
\* returned grid has a key for every provider season numbered above 0.
C7_SeasonKeys ==
    (op = "get_all_episodes_ratings" /\ "seasons" \in DOMAIN result) =>
        /\ \A k \in DOMAIN result.seasons : k > 0
        /\ \A c \in Range(SeasonCalls) : c.id \in ProviderRegular
        /\ DOMAIN result.seasons \subseteq ProviderRegular
        /\ HasReturned => DOMAIN result.seasons = ProviderRegular

\* a returned grid of a series with a season 0 and two regular seasons
C7_Witness ==
    /\ op = "get_all_episodes_ratings"
    /\ HasReturned
    /\ "seasons" \in DOMAIN result
    /\ \E s \in Range(Get(tv_details, "seasons", <<>>)) :
          "season_number" \in DOMAIN s /\ s.season_number = 0
    /\ DOMAIN result.seasons = {1}

\* a record without the secondary-rating keys
Primary(r) == [k \in DOMAIN r \ SecondaryKeys |-> r[k]]

\* the transport failure of a request to endpoint is in the log
RequestFailed(endpoint) ==
    \E i \in DOMAIN log :
        log[i].msg = "Error making request to" /\ log[i].about = endpoint

\* the failure of the ratings call is in the log
RatingsFailed == \E i \in DOMAIN log : log[i].msg = "Error getting OMDb ratings"

\* a request was sent to the secondary provider
RatingsRequested == \E c \in Range(calls) : c.api = "omdb"

\* C3: in get_tv_details, once the ratings call is made the operation
\* returns, whatever the call does: the record is the complete primary
\* record, and carries no secondary-rating field when the call failed.
C3_RatingsFailureDegrades ==
    (op = "get_tv_details" /\ Done /\ RatingsRequested) =>
        /\ outcome = "returned"
        /\ Primary(result) = TvResult(tv_details, tv_id, imdb_id)
        /\ RatingsFailed => DOMAIN result \cap SecondaryKeys = {}

\* get_tv_details returned after its ratings call failed
C3_Witness ==
    /\ op = "get_tv_details"
    /\ HasReturned
    /\ RatingsRequested
    /\ RatingsFailed
    /\ result = TvResult(tv_details, tv_id, imdb_id)

\* C4: in get_tv_details and get_all_episodes_ratings, a failure of the
\* external-ids request is not terminal: the operation returns the primary
\* record with a null imdb_id and no secondary-rating field.
C4_ExternalIdsFailureDegrades ==
    (Reconciling /\ Done /\ RequestFailed("/tv/{id}/external_ids")) =>
        /\ outcome = "returned"
        /\ result.imdb_id = None
        /\ DOMAIN result \cap SecondaryKeys = {}

\* the turn of item i received a failure: of the external-ids request, or
\* of the ratings call (of its transport, or of the conversion of its
\* payload)
ItemFailed(i) ==
    \/ Failed(served[i].ext)
    \/ /\ served[i].rat # NotCalled
       /\ GetRatings(None, ExternalId(served[i].ext), Failure, served[i].rat).raised # ""

\* the summary of item i as its show and the answers of its own turn make
\* it when none of them is a failure
ItemUnfailed(i) ==
    SeriesData(results[i], ExternalId(served[i].ext),
               IF served[i].rat = NotCalled THEN EmptyDict
               ELSE GetRatings(None, ExternalId(served[i].ext), Failure,
                               served[i].rat).value)

\* C5: once the trending page is fetched, get_trending_tv_series returns
\* one summary per item of the page (cut at limit), in the order of the
\* page; an item whose turn failed has its primary fields and no
\* secondary-rating field, and every other item is what its own show and
\* answers make it.
C5_TrendingDegradesPerItem ==
    (op = "get_trending_tv_series" /\ "results" \in DOMAIN response) =>
        /\ Done => /\ outcome = "returned"
                   /\ result.results = trending_series
                   /\ Len(trending_series) = Len(results)
        /\ results = Take(response.results, Len(results))
        /\ Len(trending_series) <= Len(results)
        /\ \A i \in DOMAIN trending_series :
              /\ trending_series[i].id = Get(results[i], "id", NoneNum)
              /\ IF ItemFailed(i)
                 THEN trending_series[i] =
                        SeriesData(results[i], trending_series[i].imdb_id, EmptyDict)
                 ELSE trending_series[i] = ItemUnfailed(i)

\* a returned page of two items, the first failed at its external-ids
\* request, the second with its secondary ratings
C5_Witness ==
    /\ op = "get_trending_tv_series"
    /\ HasReturned
    /\ Len(results) = 2
    /\ Len(result.results) = 2
    /\ Failed(served[1].ext)
    /\ ~ItemFailed(2)
    /\ "imdb_rating" \in DOMAIN result.results[2]

\* C6: when the title search answers with no result, get_tv_details and
\* get_all_episodes_ratings end by returning the error record, having sent
\* the search request only; no record they return after a match has the
\* error key.
C6_NotFound ==
    /\ (Reconciling /\ results = <<>> /\ ~RequestFailed("/search/tv")) =>
          /\ Done
          /\ outcome = "returned"
          /\ "error" \in DOMAIN result
          /\ Len(calls) = 1
    /\ (Reconciling /\ HasReturned /\ results # <<>>) => "error" \notin DOMAIN result

\* a search without result, and the error record returned
C6_Witness ==
    /\ Reconciling
    /\ HasReturned
    /\ results = <<>>
    /\ log = <<>>
    /\ "error" \in DOMAIN result

\* a rating with one decimal place, or none
OneDecimal(x) == x = NoneNum \/ x % 100 = 0

\* C8: every vote_average of the primary provider in a returned record (of
\* the series detail, of the grid and its episodes, of each trending
\* summary) is rounded to one decimal place.
C8_RatingsRounded ==
    HasReturned =>
        /\ (op = "get_tv_details" /\ "vote_average" \in DOMAIN result) =>
              OneDecimal(result.vote_average)
        /\ (op = "get_all_episodes_ratings" /\ "seasons" \in DOMAIN result) =>
              /\ OneDecimal(result.vote_average)
              /\ \A e \in GridEpisodes : OneDecimal(e.vote_average)
        /\ (op = "get_trending_tv_series" /\ "results" \in DOMAIN result) =>
              \A i \in DOMAIN result.results : OneDecimal(result.results[i].vote_average)

\* C9: a failure of the title search or of the details request ends the
\* operation: the failure is raised to the caller, no record is returned
\* and no request follows the failed one.
C9_PrimaryFailureAborts ==
    \A endpoint \in {"/search/tv", "/tv/{id}"} :
        (Reconciling /\ RequestFailed(endpoint)) =>
            /\ Done
            /\ outcome = "raised"
            /\ exception = "RequestException"
            /\ result = EmptyDict
            /\ calls[Len(calls)].endpoint = endpoint

\* the details request failed after a successful search
C9_Witness ==
    /\ Reconciling
    /\ Done
    /\ outcome = "raised"
    /\ RequestFailed("/tv/{id}")
    /\ Len(calls) = 2

\* C10, as the specification states it: a call of get_series_details that supplies neither a
\* title nor an imdb_id, or both, raises ValueError and sends no request.
C10_ExactlyOneRequired ==
    (op = "get_series_details" /\ Done /\ (Truthy(title) <=> Truthy(imdb_id))) =>
        /\ outcome = "raised"
        /\ exception = "ValueError"
        /\ calls = <<>>

\* C10: a call of get_series_details that supplies neither a title nor an
\* imdb_id raises ValueError and sends no request; a call that supplies
\* both is not an error: it sends the lookup by title and ignores the id.
C10_NeitherIsError ==
    (op = "get_series_details" /\ Done) =>
        /\ (~Truthy(title) /\ ~Truthy(imdb_id)) =>
              /\ outcome = "raised"
              /\ exception = "ValueError"
              /\ calls = <<>>
        /\ (Truthy(title) /\ Truthy(imdb_id)) =>
              /\ calls = <<OmdbRequest("t", title)>>
              /\ exception # "ValueError"

\* get_series_details called with neither argument
C10_Witness ==
    /\ op = "get_series_details"
    /\ Done
    /\ ~Truthy(title)
    /\ ~Truthy(imdb_id)
    /\ exception = "ValueError"

\* get_ratings was called with a title and without an external id
OnlyTitle == Truthy(title) /\ ~Truthy(imdb_id)

\* get_ratings returned a block, not the empty dict
RatingsReturned == op = "get_ratings" /\ HasReturned /\ DOMAIN result # {}

\* C11: in a block get_ratings returns, when the call had only a title and
\* the first match of the search has a title that differs from it without
\* regard to case, original_query is the title of the call and
\* corrected_title the title of the match; when the call had an external
\* id, the search found nothing or the match has the title of the call
\* without regard to case, the block has neither field.
C11_CorrectionRecorded ==
    RatingsReturned =>
        IF OnlyTitle /\ results # <<>> /\ Lower(title) # Lower(results[1].Title)
        THEN /\ result.original_query = title
             /\ result.corrected_title = results[1].Title
             /\ Lower(result.original_query) # Lower(result.corrected_title)
        ELSE DOMAIN result \cap {"original_query", "corrected_title"} = {}

\* a misspelt title corrected by the search
C11_Witness ==
    /\ RatingsReturned
    /\ title = "Severence"
    /\ imdb_id = None
    /\ "original_query" \in DOMAIN result
    /\ result.original_query = "Severence"
    /\ result.corrected_title = "Severance"

\* the detail payload a returned block was built from
DetailSent == served[1].detail.json

\* C12: in a block get_ratings returns, imdb_rating and metascore are the
\* numbers the provider supplied, and null when it supplied none (the
\* literal N/A, or no such field): never zero, and never the string, in
\* place of a number the provider did not send.
C12_NumbersOrNull ==
    RatingsReturned =>
        /\ result.imdb_rating =
              IF "imdbRating" \in DOMAIN DetailSent /\ DetailSent.imdbRating \in FloatStrings
              THEN FloatOf(DetailSent.imdbRating) ELSE NoneNum
        /\ result.metascore =
              IF "Metascore" \in DOMAIN DetailSent /\ DetailSent.Metascore \in IntStrings
              THEN IntOf(DetailSent.Metascore) ELSE NoneNum

\* C13: an image field of a returned record is the fixed prefix followed by
\* the provider's relative path, or null when that path is null or empty.
\* In each trending summary both fields are the prefix and the path, or
\* null; in the series detail record neither field is the provider's
\* relative path as it came, and both are null when the path is null or
\* empty.
C13_ImageFields ==
    HasReturned =>
        /\ (op = "get_trending_tv_series" /\ "results" \in DOMAIN result) =>
              \A i \in DOMAIN result.results :
                  /\ result.results[i].poster_path =
                        IF Truthy(Get(results[i], "poster_path", None))
                        THEN <<PosterPrefix, results[i].poster_path>> ELSE NoneSeq
                  /\ result.results[i].backdrop_path =
                        IF Truthy(Get(results[i], "backdrop_path", None))
                        THEN <<BackdropPrefix, results[i].backdrop_path>> ELSE NoneSeq
        /\ (op = "get_tv_details" /\ "poster_path" \in DOMAIN result) =>
              \A field \in {"poster_path", "backdrop_path"} :
                  IF Truthy(Get(tv_details, field, None))
                  THEN result[field] # tv_details[field]
                  ELSE result[field] = None

\* the steps of a reconciliation, by the endpoint of their request (the
\* last is the lookup of the secondary provider)
StepOrder == <<"/search/tv", "/tv/{id}", "/tv/{id}/external_ids", "/">>

\* the requests of those steps, in the order sent
StepCalls == SelectSeq(calls, LAMBDA c : c.endpoint # "/tv/{id}/season/{n}")

\* the place of a position of the operation in the order of the steps
Rank(at) ==
    CASE at = "idle" -> 0
      [] at = "details" -> 1
      [] at = "external_ids" -> 2
      [] at = "ratings" -> 3
      [] at = "season" -> 4
      [] at = "done" -> 5

\* the requests sent so far are the first steps in their order, each sent
\* once and after the success of the one before, the season requests after
\* them all, and the operation is at the step after the last one sent
StepsInOrder ==
    Reconciling =>
        /\ Len(StepCalls) <= Len(StepOrder)
        /\ \A i \in DOMAIN StepCalls : StepCalls[i].endpoint = StepOrder[i]
        /\ \A i \in DOMAIN StepCalls : i > 1 => ~RequestFailed(StepOrder[i - 1])
        /\ Len(StepCalls) > 1 => results # <<>>
        /\ calls = StepCalls \o SeasonCalls
        /\ Rank(pc) < 4 => Rank(pc) = Len(calls)
        /\ SeasonCalls # <<>> => Rank(pc) >= 4

\* a step of a running reconciliation moves it forward and keeps the
\* requests already sent
StepsForward ==
    (Reconciling /\ pc \notin {"idle", "done"}) =>
        /\ op' = op
        /\ Rank(pc') > Rank(pc) \/ (pc = "season" /\ pc' = "season")
        /\ Len(calls') >= Len(calls)
        /\ SubSeq(calls', 1, Len(calls)) = calls

\* C15: within a call of get_tv_details or get_all_episodes_ratings the
\* requests are the title search, the details, the external ids and the
\* ratings lookup in that order, each at most once and none before the one
\* before it succeeded, and no step leads back to an earlier one.
C15_FixedOrder == []StepsInOrder /\ [][StepsForward]_vars

\* a reconciliation that returned after its four steps
C15_Witness ==
    /\ Reconciling
    /\ HasReturned
    /\ Len(StepCalls) = 4
    /\ StepCalls[4].api = "omdb"

\* C16: the requests of a call of get_ratings.  With only a title, the
\* title search comes first; after a search that found matches the detail
\* lookup is by the external id of the first match, after a search that
\* found none it is by the title of the call, and after a search that
\* failed there is none.  With an external id there is no search and the
\* lookup is by that id.  With neither, no request is sent.
C16_Resolution ==
    (op = "get_ratings" /\ Done) =>
        IF OnlyTitle
        THEN /\ calls # <<>>
             /\ calls[1] = OmdbRequest("s", title)
             /\ IF Failed(served[1].search) THEN calls = <<OmdbRequest("s", title)>>
                ELSE IF results # <<>>
                THEN calls = <<OmdbRequest("s", title),
                               OmdbRequest("i", results[1].imdbID)>>
                ELSE calls = <<OmdbRequest("s", title), OmdbRequest("t", title)>>
        ELSE IF Truthy(imdb_id) THEN calls = <<OmdbRequest("i", imdb_id)>>
        ELSE calls = <<>> /\ exception = "ValueError"

\* a call with only a title whose search found a match, and the lookup by
\* the id of the match
C16_Witness ==
    /\ op = "get_ratings"
    /\ HasReturned
    /\ OnlyTitle
    /\ results # <<>>
    /\ Len(calls) = 2
    /\ calls[2].key = "i"
    /\ calls[2].value = "tt11280740"

\* a constructor has run
Constructed == op \in {"TMDbAPI.__init__", "OMDbAPI.__init__"} /\ Done

\* the credential of the primary provider, of the secondary provider, is
\* missing: neither the argument nor the environment gives a key
PrimaryMissing == ~Truthy(KeyFrom(api_key, environ, "TMDB_API_KEY"))
SecondaryMissing ==
    ~Truthy(KeyFrom(IF op = "OMDbAPI.__init__" THEN api_key ELSE None,
                    environ, "OMDB_API_KEY"))

\* C14, as the specification states it: a construction with the credential
\* of either provider missing raises the configuration error, and no
\* request was sent.
C14_EitherMissingFails ==
    Constructed =>
        /\ calls = <<>>
        /\ (op = "TMDbAPI.__init__" /\ (PrimaryMissing \/ SecondaryMissing)) =>
              outcome = "raised" /\ exception = "ValueError"
        /\ (op = "OMDbAPI.__init__" /\ SecondaryMissing) =>
              outcome = "raised" /\ exception = "ValueError"

\* C14: a constructor sends no request.  TMDbAPI raises ValueError exactly
\* when the credential of the primary provider is missing; when only that
\* of the secondary provider is missing it makes a client without ratings
\* client and logs a warning.  OMDbAPI raises ValueError exactly when the
\* credential of the secondary provider is missing.
C14_OwnCredentialRequired ==
    Constructed =>
        /\ calls = <<>>
        /\ op = "TMDbAPI.__init__" =>
              /\ PrimaryMissing <=> (outcome = "raised" /\ exception = "ValueError")
              /\ ~PrimaryMissing =>
                    /\ outcome = "returned"
                    /\ omdb_api <=> ~SecondaryMissing
                    /\ SecondaryMissing <=> log # <<>>
        /\ op = "OMDbAPI.__init__" =>
              /\ SecondaryMissing <=> (outcome = "raised" /\ exception = "ValueError")
              /\ ~SecondaryMissing => outcome = "returned"

\* TMDbAPI made with the credential of the secondary provider missing
C14_Witness ==
    /\ op = "TMDbAPI.__init__"
    /\ HasReturned
    /\ ~PrimaryMissing
    /\ SecondaryMissing
    /\ ~omdb_api
    /\ log # <<>>

\* an operation is between its first request and its end
Running == pc \notin {"idle", "done"}

\* the external-ids requests of the operation, in the order sent
ExternalIdsCalls == SelectSeq(calls, LAMBDA c : c.endpoint = "/tv/{id}/external_ids")

\* the most requests an operation sends: one per step of a reconciliation
\* and one per regular season, the page and two per item, the search and
\* the lookup
MostCalls ==
    CASE op = "get_tv_details" -> Len(StepOrder)
      [] op = "get_all_episodes_ratings" ->
            Len(StepOrder) + Len(Get(tv_details, "seasons", <<>>))
      [] op = "get_trending_tv_series" -> 1 + 2 * limit
      [] op = "get_ratings" -> 2
      [] op = "get_series_details" -> 1
      [] OTHER -> 0

\* the requests of get_trending_tv_series: the page first and once, then
\* per item of the page cut at limit, in order, one external-ids request
\* and at most one ratings request after it
TrendingCallsBounded ==
    op = "get_trending_tv_series" =>
        /\ calls # <<>>
        /\ calls[1].endpoint = "/trending/tv/"
        /\ \A j \in DOMAIN calls : j > 1 => calls[j].endpoint # "/trending/tv/"
        /\ Len(results) <= limit
        /\ Len(ExternalIdsCalls) = Len(served)
        /\ Len(ExternalIdsCalls) <= Len(results)
        /\ \A i \in DOMAIN ExternalIdsCalls :
              ExternalIdsCalls[i].id = Get(results[i], "id", NoneNum)
        /\ \A j \in DOMAIN calls :
              calls[j].api = "omdb" =>
                  j > 1 /\ calls[j - 1].endpoint = "/tv/{id}/external_ids"

\* every step of a running operation sends at least one request, and none
\* starts the operation again
StepSendsRequest == Running => Len(calls') > Len(calls) /\ pc' # "idle"

\* C17: every operation ends after a bounded number of requests, none sent
\* again: each of its steps sends a request and it never has sent more
\* than its bound, so it ends once that many are answered.
\* get_trending_tv_series fetches the page once, then sends per item, for
\* at most limit items, one external-ids request and at most one ratings
\* request, whatever the requests answer.
C17_BoundedRequests ==
    /\ [](Len(calls) <= MostCalls /\ TrendingCallsBounded)
    /\ [][StepSendsRequest]_vars

\* a page of two items cut at limit one, returned after one external-ids
\* request that failed
C17_Witness ==
    /\ op = "get_trending_tv_series"
    /\ HasReturned
    /\ "results" \in DOMAIN response
    /\ Len(response.results) = 2
    /\ limit = 1
    /\ Len(results) = 1
    /\ Failed(served[1].ext)
    /\ Len(calls) = 2

\* an operation of TMDbAPI
Aggregating == Reconciling \/ op = "get_trending_tv_series"

\* a reconciliation got its external ids, and either has no ratings client
\* or got no id
WithoutRatingsLookup ==
    /\ Reconciling
    /\ Len(StepCalls) >= 3
    /\ ~RequestFailed("/tv/{id}/external_ids")
    /\ ~(omdb_api /\ Truthy(imdb_id))

\* C18: in get_tv_details, get_all_episodes_ratings and each item of
\* get_trending_tv_series, a request is sent to the secondary provider only
\* when there is a ratings client and the external id is neither null nor
\* empty, and the request is the lookup by that id.  Without one of the
\* two no such request is sent, and the record (the item's summary) is the
\* primary one, with no secondary-rating field; the operation returns it,
\* unless a later request of the primary provider fails.
C18_RatingsOnlyWhenConfigured ==
    Aggregating =>
        /\ \A c \in Range(calls) :
              c.api = "omdb" => omdb_api /\ c.key = "i" /\ Truthy(c.value)
        /\ (Reconciling /\ RatingsRequested) => Truthy(imdb_id)
        /\ WithoutRatingsLookup =>
              /\ ~RatingsRequested
              /\ DOMAIN result \cap SecondaryKeys = {}
              /\ op = "get_tv_details" =>
                    /\ HasReturned
                    /\ result = TvResult(tv_details, tv_id, imdb_id)
              /\ op = "get_all_episodes_ratings" =>
                    IF outcome = "raised"
                    THEN RequestFailed("/tv/{id}/season/{n}")
                    ELSE [result EXCEPT !.seasons = EmptyDict] =
                            GridResult(tv_details, tv_id, imdb_id)
        /\ \A i \in DOMAIN trending_series :
              IF omdb_api /\ Truthy(ExternalId(served[i].ext))
              THEN served[i].rat # NotCalled
              ELSE /\ served[i].rat = NotCalled
                   /\ trending_series[i] =
                         SeriesData(results[i], ExternalId(served[i].ext), EmptyDict)

\* get_tv_details returned an external id from a client without ratings
\* client
C18_Witness ==
    /\ op = "get_tv_details"
    /\ HasReturned
    /\ ~omdb_api
    /\ Truthy(imdb_id)
    /\ ~RatingsRequested
    /\ result = TvResult(tv_details, tv_id, imdb_id)

\* an answer to the ratings request that gives no block: a failure of the
\* transport, a miss, or a payload whose numbers cannot be converted
GaveNoBlock(rat) ==
    \/ Failed(rat)
    \/ /\ rat # NotCalled
       /\ \/ Get(rat.json, "Response", None) = "False"
          \/ Unconvertible(rat.json)

\* the requests sent to the secondary provider
RatingsCalls == SelectSeq(calls, LAMBDA c : c.api = "omdb")

\* C19: for each item of get_trending_tv_series, when the external-ids
\* request failed the summary has a null imdb_id and no ratings request was
\* sent for the item; when it succeeded and the ratings request failed or
\* gave no block, the summary has the imdb_id obtained and no
\* secondary-rating key.
C19_ItemDegrades ==
    op = "get_trending_tv_series" =>
        /\ Len(RatingsCalls) = Cardinality({i \in DOMAIN served : served[i].rat # NotCalled})
        /\ \A i \in DOMAIN trending_series :
              /\ Failed(served[i].ext) =>
                    /\ trending_series[i].imdb_id = None
                    /\ served[i].rat = NotCalled
                    /\ DOMAIN trending_series[i] \cap SecondaryKeys = {}
              /\ (~Failed(served[i].ext) /\ GaveNoBlock(served[i].rat)) =>
                    /\ trending_series[i].imdb_id = ExternalId(served[i].ext)
                    /\ Truthy(trending_series[i].imdb_id)
                    /\ DOMAIN trending_series[i] \cap SecondaryKeys = {}

\* an item whose ratings request failed after its external-ids request
\* gave an id
C19_Witness ==
    /\ op = "get_trending_tv_series"
    /\ HasReturned
    /\ \E i \in DOMAIN trending_series :
          /\ ~Failed(served[i].ext)
          /\ Failed(served[i].rat)
          /\ trending_series[i].imdb_id = "tt11280740"
          /\ "imdb_rating" \notin DOMAIN trending_series[i]

\* fetch_series_details has run to its end
FetchEnded == handler = "fetch_series_details" /\ step = "idle"

\* C20: when fetch_series_details has ended with an error message,
\* series_details is what it was when the handler started.
C20_NoPartialUpdate ==
    (FetchEnded /\ error_message # <<>>) => series_details = before

\* fetch_popular_tv_shows has run to its end
PopularEnded == handler = "fetch_popular_tv_shows" /\ step = "idle"

\* each loading flag is true exactly while its handler is running
FlagsFollowHandlers ==
    /\ is_loading_details <=> (handler = "fetch_series_details" /\ step # "idle")
    /\ is_loading_popular <=> (handler = "fetch_popular_tv_shows" /\ step # "idle")

\* C21, as stated: each loading flag is true only while its handler is
\* running and false after every run, and after a run error_message is not
\* empty exactly when the run ended in an error: a missing credential, an
\* exception, or an error record returned by a call of the client.
C21_ErrorIffEndedInError ==
    /\ FlagsFollowHandlers
    /\ (FetchEnded \/ PopularEnded) =>
          (error_message # <<>> <=>
              ended \in {"missing credential", "exception", "error record",
                         "episodes error record"})

\* C21: each loading flag is true only while its handler is running and
\* false after every run.  After a run error_message is not empty exactly
\* when the constructor or a call raised, or the first call of the handler
\* (get_tv_details, get_trending_tv_series) returned an error record.  An
\* error record returned by get_all_episodes_ratings leaves error_message
\* empty and series_details the detail record, without seasons_data.
C21_FlagsAndMessage ==
    /\ FlagsFollowHandlers
    /\ (FetchEnded \/ PopularEnded) =>
          /\ ended # ""
          /\ error_message # <<>> <=>
                ended \in {"missing credential", "exception", "error record"}
          /\ ended = "episodes error record" =>
                /\ FetchEnded
                /\ error_message = <<>>
                /\ "tmdb_id" \in DOMAIN series_details
                /\ "seasons_data" \notin DOMAIN series_details

\* fetch_series_details ended after get_all_episodes_ratings returned its
\* error record
C21_Witness ==
    /\ FetchEnded
    /\ ended = "episodes error record"
    /\ error_message = <<>>
    /\ ~is_loading_details
    /\ series_details # before

====
